---------------------------- MODULE Spec2Model ----------------------------
(***************************************************************************)
(* NetBox210DiffSync (diffsync/adapters/netbox.py): loading a NetBox dump  *)
(* into DiffSync records.  load() walks the model types in a fixed order   *)
(* and hands every matching source record to load_record(), which rewrites *)
(* the foreign keys, applies the per-type fixups, builds the record and    *)
(* reports the NetBox fields the importer ignores.                         *)
(***************************************************************************)
EXTENDS Integers, Sequences, FiniteSets, TLC

VARIABLES
    dataset,             \* the dump handed to every adapter instance (source_data=...)
    source_data,         \* self.source_data: the dump, or None once load() is through
    pc,                  \* where the current instance is: new, load, done, raised
    run,                 \* which adapter instance this is: "first" or "second"
    mi,                  \* load(): position in ("contenttype", "permission", *top_level)
    ri,                  \* load(): position in the records of the current model type
    index,               \* _data_by_pk of the instance: <<modelname, pk>> -> record
    created,             \* every make_model() call of the instance that built a record
    uuid_calls,          \* number of uuid4() calls of the instance so far
    unsupported_fields,  \* NetBox210DiffSync._unsupported_fields (class attribute)
    log,                 \* every line handed to self.logger, in order
    lastCall,            \* the latest load_record() call and how it ended
    calls,               \* <<run, modelname, pk>> of every load_record() call, in order
    firstRun             \* the records the first instance had created when it stopped

vars == <<dataset, source_data, pc, run, mi, ri, index, created, uuid_calls,
          unsupported_fields, log, lastCall, calls, firstRun>>

-----------------------------------------------------------------------------
(* Bounds of the model *)

\* primary keys of the dump are 1..MaxPk
MaxPk == 2
\* a list-valued foreign key holds at most MaxList keys
MaxList == 2
\* a select custom field has at most MaxChoices choices
MaxChoices == 2
\* the drift datasets hold at most MaxRecs records
MaxRecs == 3
\* each uuid4() call draws one of NumRandom values
NumRandom == 2

-----------------------------------------------------------------------------
(* JSON / Python values.  Every value carries its type, as isinstance()    *)
(* and truthiness are what load_record() branches on.                      *)

None == [t |-> "none"]
IntV(i) == [t |-> "int", i |-> i]
StrV(s) == [t |-> "str", s |-> s]
BoolV(b) == [t |-> "bool", b |-> b]
ListV(l) == [t |-> "list", l |-> l]
DictV(kv) == [t |-> "dict", kv |-> kv]

IsInt(v) == v.t = "int"
IsList(v) == v.t = "list"

\* Python truthiness, as used by `not data[key]` and `if value`
Truthy(v) ==
    CASE v.t = "none" -> FALSE
      [] v.t = "int" -> v.i # 0
      [] v.t = "str" -> v.s # ""
      [] v.t = "bool" -> v.b
      [] v.t = "list" -> Len(v.l) > 0
      [] v.t = "dict" -> v.kv # {}
      [] OTHER -> TRUE

\* the first character of a name, for str.startswith()
FirstChar(s) ==
    CASE s = "*assigned_object_type" -> "*"
      [] s = "_private" -> "_"
      [] s = "" -> ""
      [] OTHER -> "a"

StartsWith(s, c) == FirstChar(s) = c

\* s[1:]
StripFirst(s) ==
    CASE s = "*assigned_object_type" -> "assigned_object_type"
      [] s = "_private" -> "private"
      [] OTHER -> s

\* a function without one key (del data[key])
Without(f, k) == [x \in (DOMAIN f) \ {k} |-> f[x]]

\* a function with one key set (data[key] = v)
With(f, k, v) == [x \in (DOMAIN f) \cup {k} |-> IF x = k THEN v ELSE f[x]]

-----------------------------------------------------------------------------
(* The target model registry: the DiffSync model classes the adapter       *)
(* carries as attributes, and what each declares.                          *)

\* N2NDiffSync.top_level
top_level == <<"user", "customfield", "customfieldchoice", "tag", "ipaddress">>

\* the names getattr(self, name) finds a model class under
AdapterModels ==
    {"contenttype", "permission", "user", "customfield", "customfieldchoice",
     "tag", "ipaddress", "interface", "vrf", "status"}

\* issubclass(target_class, NautobotBaseModel): the types Nautobot owns; the others
\* (Django's ContentType, Permission) are referred to by natural key
IsNautobotBaseModel(name) == name \in AdapterModels \ {"contenttype", "permission"}

\* diffsync_model.nautobot_model()._meta.label_lower
label_lower(name) ==
    CASE name = "contenttype" -> "contenttypes.contenttype"
      [] name = "permission" -> "auth.permission"
      [] name = "user" -> "users.user"
      [] name = "customfield" -> "extras.customfield"
      [] name = "customfieldchoice" -> "extras.customfieldchoice"
      [] name = "tag" -> "extras.tag"
      [] name = "ipaddress" -> "ipam.ipaddress"
      [] OTHER -> name

\* diffsync_model.fk_associations().items(), in the order the loop sees them
fk_associations(name) ==
    CASE name = "permission" -> << <<"content_type", "contenttype">> >>
      [] name = "customfield" -> << <<"content_types", "contenttype">> >>
      [] name = "ipaddress" ->
            << <<"assigned_object_id", "*assigned_object_type">>,
               <<"assigned_object_type", "contenttype">>,
               <<"vrf", "vrf">>,
               <<"status", "status">> >>
      [] OTHER -> << >>

\* the field names of a model class (nautobot_instance.__fields__)
ModelFields(name) ==
    CASE name = "contenttype" -> {"pk", "app_label", "model"}
      [] name = "permission" -> {"pk", "codename", "content_type"}
      [] name = "user" -> {"pk", "username", "config_data"}
      [] name = "customfield" ->
            {"pk", "name", "type", "required", "actual_required", "content_types"}
      [] name = "customfieldchoice" -> {"pk", "field", "value"}
      [] name = "tag" -> {"pk", "name", "description"}
      [] name = "ipaddress" ->
            {"pk", "address", "assigned_object_type", "assigned_object_id", "vrf", "status"}
      [] OTHER -> {"pk"}

\* <<field name, alias>> of the fields whose alias differs from their name
ModelAliases(name) ==
    IF name = "tag" THEN {<<"description", "comments">>} ELSE {}

\* nautobot_instance.ignored_fields: NetBox fields the model drops on purpose
ModelIgnoredFields(name) ==
    IF name = "customfield" THEN {"choices"} ELSE {"created"}

\* the fields get_identifiers() returns (the natural key)
ModelIdentifiers(name) ==
    CASE name = "contenttype" -> {"app_label", "model"}
      [] name = "permission" -> {"codename"}
      [] OTHER -> {"pk"}

\* the content types Nautobot has; a NetBox ContentType outside them is flagged IGNORE
NautobotContentTypes == {"interface", "contenttype", "status", "logentry"}

-----------------------------------------------------------------------------
(* Collaborators of load_record() *)

\* netbox_pk_to_nautobot_pk(modelname, pk): the name-based UUID of <<modelname, pk>>
netbox_pk_to_nautobot_pk(name, pk) == [t |-> "uuid5", of |-> name, pk |-> pk]

\* uuid4(): a random UUID; the n-th call of an instance returns a value no other
\* call of that instance returns, and which one is left to chance (rnd)
uuid4(rnd, n) == [t |-> "uuid4", r |-> rnd, n |-> n]

\* json.loads() of a serialized array of strings, given as its tokens
json_loads(toks) == SelectSeq(toks, LAMBDA x : x \notin {"[", "]", ","})

\* json.dumps() of a sequence of strings, as tokens
RECURSIVE JoinTokens(_)
JoinTokens(l) ==
    IF l = <<>> THEN <<>>
    ELSE IF Len(l) = 1 THEN l
    ELSE <<Head(l), ",">> \o JoinTokens(Tail(l))

json_dumps(l) == [t |-> "json", toks |-> <<"[">> \o JoinTokens(l) \o <<"]">>]

NotFound == [t |-> "notfound"]

\* N2NDiffSync.get_by_pk(modelname, pk): the record of the index, or a failed lookup
get_by_pk(idx, name, pk) ==
    IF <<name, pk>> \in DOMAIN idx THEN idx[<<name, pk>>] ELSE NotFound

\* DiffSyncModel.get_identifiers(): the natural key of a record
get_identifiers(inst) ==
    [t |-> "ids",
     ids |-> [f \in ModelIdentifiers(inst.model) \cap DOMAIN inst.data |-> inst.data[f]]]

\* the pk of the instance a model class builds: Nautobot's own models turn the
\* NetBox integer into the derived UUID, the others keep the key they are given
InstancePk(name, pk) ==
    IF IsNautobotBaseModel(name) /\ IsInt(pk)
    THEN netbox_pk_to_nautobot_pk(name, pk.i)
    ELSE pk

\* nautobot_instance.__fields_set__: the fields the data gave, by name or by alias
FieldsSet(name, data) ==
    (ModelFields(name) \cap DOMAIN data)
        \cup {a[1] : a \in {b \in ModelAliases(name) : b[2] \in DOMAIN data}}

\* N2NDiffSync.make_model(diffsync_model, data): the instance built from data
make_model(name, data) ==
    [model |-> name,
     pk |-> InstancePk(name, data["pk"]),
     data |-> [f \in FieldsSet(name, data) |->
                 IF f \in DOMAIN data THEN data[f]
                 ELSE data[(CHOOSE a \in ModelAliases(name) : a[1] = f)[2]]],
     fields_set |-> FieldsSet(name, data),
     IGNORE |-> (name = "contenttype" /\ "model" \in DOMAIN data
                   /\ data["model"].s \notin NautobotContentTypes)]

-----------------------------------------------------------------------------
(* Logging *)

\* one call of self.logger.<level>(msg, ...)
LogLine(level, msg, model, pk, fields) ==
    [level |-> level, msg |-> msg, model |-> model, pk |-> pk, fields |-> fields]

\* _get_ignored_fields(netbox_data, nautobot_instance)
get_ignored_fields(netbox_data, inst) ==
    LET netbox_fields ==
            {key \in DOMAIN netbox_data :
                Truthy(netbox_data[key]) /\ ~StartsWith(key, "_")}
        instance_fields == inst.fields_set
        field_aliases == {a[2] : a \in ModelAliases(inst.model)}
    IN  ((netbox_fields \ instance_fields) \ field_aliases)
            \ ModelIgnoredFields(inst.model)

\* _log_ignored_fields_details(): one debug line per instance with ignored fields
log_ignored_fields_details(inst, model_name, ignored_fields) ==
    << LogLine("debug", "NetBox field not defined for DiffSync Model",
               model_name, inst.pk, ignored_fields) >>

\* unlogged_fields without the set difference
unlogged_fields_all(ignored_fields, logged) == ignored_fields

\* the fields of a later instance that no warning has named yet
unlogged_fields(ignored_fields, logged) == ignored_fields \ logged

\* _log_ignored_fields_info(model_name, ignored_fields), on the table uf:
\* the lines it logs and the table it leaves
log_ignored_fields_info(model_name, ignored_fields, uf) ==
    IF model_name \notin DOMAIN uf
    THEN [log |-> << LogLine("warning", "not supported by this importer",
                             model_name, None, ignored_fields) >>,
          uf |-> With(uf, model_name, ignored_fields)]
    ELSE LET unlogged == unlogged_fields(ignored_fields, uf[model_name])
         IN  IF unlogged # {}
             THEN [log |-> << LogLine("warning", "not supported by this importer",
                                      model_name, None, unlogged) >>,
                   uf |-> With(uf, model_name, uf[model_name] \cup unlogged)]
             ELSE [log |-> << >>, uf |-> uf]

\* _log_ignored_fields(netbox_data, nautobot_instance), on the table uf
log_ignored_fields(netbox_data, inst, uf) ==
    LET ignored_fields == get_ignored_fields(netbox_data, inst)
    IN  IF ignored_fields # {}
        THEN LET info == log_ignored_fields_info(inst.model, ignored_fields, uf)
             IN  [log |-> log_ignored_fields_details(inst, inst.model, ignored_fields)
                            \o info.log,
                  uf |-> info.uf]
        ELSE [log |-> << >>, uf |-> uf]

-----------------------------------------------------------------------------
(* load_record(): the foreign keys.  acc is the state of one call:         *)
(* data (the local dict), exc (the exception that ended it, or "none"),    *)
(* log (the lines logged so far).                                          *)

SetField(acc, key, v) == [acc EXCEPT !.data = With(acc.data, key, v)]
SetNone(acc, key, line) ==
    [acc EXCEPT !.data = With(acc.data, key, None), !.log = Append(acc.log, line)]
Raise(acc, exc) == [acc EXCEPT !.exc = exc]

\* drop_ignored without the filter
keep_ignored(references) == references

\* the records of a list of references that are not flagged IGNORE, in order
drop_ignored(references) == SelectSeq(references, LAMBDA entry : ~entry.IGNORE)

\* a list-valued foreign key to target_name
resolve_list(acc, key, target_name, idx) ==
    LET pks == acc.data[key].l
    IN  IF IsNautobotBaseModel(target_name)
        THEN SetField(acc, key,
                ListV([i \in 1..Len(pks) |->
                         netbox_pk_to_nautobot_pk(target_name, pks[i].i)]))
        ELSE LET references == [i \in 1..Len(pks) |-> get_by_pk(idx, target_name, pks[i])]
             IN  IF \E i \in 1..Len(pks) : references[i] = NotFound
                 THEN Raise(acc, "ObjectNotFound")
                 ELSE LET kept == drop_ignored(references)
                      IN  SetField(acc, key,
                             ListV([i \in 1..Len(kept) |-> get_identifiers(kept[i])]))

\* a single integer foreign key to target_name
resolve_int(acc, key, target_name, idx) ==
    IF IsNautobotBaseModel(target_name)
    THEN SetField(acc, key, netbox_pk_to_nautobot_pk(target_name, acc.data[key].i))
    ELSE LET reference == get_by_pk(idx, target_name, acc.data[key])
         IN  IF reference = NotFound
             THEN Raise(acc, "ObjectNotFound")
             ELSE IF reference.IGNORE
                  THEN SetField(acc, key, None)
                  ELSE SetField(acc, key, get_identifiers(reference))

\* the class lookup and the three shapes of value
resolve_target(acc, key, target_name, idx) ==
    IF target_name \notin AdapterModels
    THEN SetNone(acc, key,
            LogLine("warning", "Unknown/unrecognized class name!", target_name, None, {}))
    ELSE IF IsList(acc.data[key]) THEN resolve_list(acc, key, target_name, idx)
    ELSE IF IsInt(acc.data[key]) THEN resolve_int(acc, key, target_name, idx)
    ELSE SetNone(acc, key, LogLine("error", "Invalid PK value", "", acc.data[key], {}))

\* resolve_generic taking the ContentType's app_label for the target's name
resolve_generic_app_label(acc, key, target_name, record, idx) ==
    LET target_content_type_field == StripFirst(target_name)
    IN  IF target_content_type_field \notin DOMAIN record.fields
        THEN Raise(acc, "KeyError")
        ELSE LET target_content_type_pk == record.fields[target_content_type_field]
             IN  IF ~IsInt(target_content_type_pk)
                 THEN SetNone(acc, key,
                         LogLine("error", "Invalid content-type PK value", "",
                                 target_content_type_pk, {}))
                 ELSE LET target_content_type_record ==
                              get_by_pk(idx, "contenttype", target_content_type_pk)
                      IN  IF target_content_type_record = NotFound
                          THEN Raise(acc, "ObjectNotFound")
                          ELSE resolve_target(acc, key,
                                  target_content_type_record.data["app_label"].s, idx)

\* a generic foreign key: the target is the model of the ContentType the record's
\* field target_name[1:] names
resolve_generic(acc, key, target_name, record, idx) ==
    LET target_content_type_field == StripFirst(target_name)
    IN  IF target_content_type_field \notin DOMAIN record.fields
        THEN Raise(acc, "KeyError")
        ELSE LET target_content_type_pk == record.fields[target_content_type_field]
             IN  IF ~IsInt(target_content_type_pk)
                 THEN SetNone(acc, key,
                         LogLine("error", "Invalid content-type PK value", "",
                                 target_content_type_pk, {}))
                 ELSE LET target_content_type_record ==
                              get_by_pk(idx, "contenttype", target_content_type_pk)
                      IN  IF target_content_type_record = NotFound
                          THEN Raise(acc, "ObjectNotFound")
                          ELSE resolve_target(acc, key,
                                  target_content_type_record.data["model"].s, idx)

\* one pass of the loop over fk_associations().items()
resolve_fk(acc, key, target_name, record, idx) ==
    IF acc.exc # "none" THEN acc
    ELSE IF key \notin DOMAIN acc.data \/ ~Truthy(acc.data[key]) THEN acc
    ELSE IF target_name = "status"
         THEN SetField(acc, key, [t |-> "ids", ids |-> [slug |-> acc.data[key]]])
    ELSE IF StartsWith(target_name, "*")
         THEN resolve_generic(acc, key, target_name, record, idx)
    ELSE resolve_target(acc, key, target_name, idx)

RECURSIVE resolve_fks(_, _, _, _)
resolve_fks(acc, assoc, record, idx) ==
    IF assoc = << >> THEN acc
    ELSE resolve_fks(resolve_fk(acc, Head(assoc)[1], Head(assoc)[2], record, idx),
                     Tail(assoc), record, idx)

-----------------------------------------------------------------------------
(* load_record(): the per-type fixups *)

\* find_userconfig without the break: the last matching record wins
RECURSIVE find_userconfig_last(_, _)
find_userconfig_last(src, pk) ==
    IF src = << >> THEN NotFound
    ELSE IF src[Len(src)].model = "users.userconfig"
              /\ src[Len(src)].fields["user"] = IntV(pk)
         THEN src[Len(src)]
         ELSE find_userconfig_last(SubSeq(src, 1, Len(src) - 1), pk)

\* the first users.userconfig record of the dump whose user is pk
RECURSIVE find_userconfig(_, _)
find_userconfig(src, pk) ==
    IF src = << >> THEN NotFound
    ELSE IF Head(src).model = "users.userconfig" /\ Head(src).fields["user"] = IntV(pk)
         THEN Head(src)
         ELSE find_userconfig(Tail(src), pk)

\* diffsync_model == self.user
user_fixup(acc, record, src) ==
    LET looking == LogLine("debug", "Looking for UserConfig corresponding to User",
                           "user", None, {})
        other_record == find_userconfig(src, record.pk)
    IN  IF other_record # NotFound
        THEN [acc EXCEPT !.data = With(acc.data, "config_data", other_record.fields["data"]),
                         !.log = Append(acc.log, looking)]
        ELSE [acc EXCEPT !.data = With(acc.data, "config_data", DictV({})),
                         !.log = acc.log \o
                            << looking,
                               LogLine("warning", "No UserConfig found for User",
                                       "user", IntV(record.pk), {}) >>]

\* choice_data with a random UUID for the parent too
choice_data_random_field(record, choices, i, ncalls, rnd) ==
    [pk |-> uuid4(rnd, ncalls + i),
     field |-> uuid4(rnd, 0),
     value |-> StrV(choices[i])]

\* the customfieldchoice data of the i-th choice of a select custom field
choice_data(record, choices, i, ncalls, rnd) ==
    [pk |-> uuid4(rnd, ncalls + i),
     field |-> netbox_pk_to_nautobot_pk("customfield", record.pk),
     value |-> StrV(choices[i])]

\* choices_of without the test of the type
choices_of_any_type(data) == json_loads(data["choices"].toks)

\* the choices a custom field is split into: none unless its type is "select"
choices_of(data) ==
    IF data["type"] = StrV("select") THEN json_loads(data["choices"].toks) ELSE << >>

\* diffsync_model == self.customfield
customfield_fixup(acc, record, ncalls, rnd) ==
    LET data1 == With(With(acc.data, "actual_required", acc.data["required"]),
                      "required", BoolV(FALSE))
        choices == choices_of(data1)
    IN  [acc EXCEPT
            !.data = IF data1["type"] = StrV("select") THEN Without(data1, "choices")
                     ELSE data1,
            !.made = [i \in 1..Len(choices) |->
                        make_model("customfieldchoice",
                                   choice_data(record, choices, i, ncalls, rnd))]]

\* the branch on diffsync_model after the foreign keys (no virtualmachine in this
\* registry, so its cast of vcpus is not taken)
fixup(name, acc, record, src, ncalls, rnd) ==
    IF name = "user" THEN user_fixup(acc, record, src)
    ELSE IF name = "customfield" THEN customfield_fixup(acc, record, ncalls, rnd)
    ELSE acc

\* data["pk"] = record["pk"]
record_pk(record) == IntV(record.pk)

\* load_record(diffsync_model, record) of an instance with dump src, index idx and
\* uuid4() called ncalls times, on the class table uf: how the call ends
load_record(name, record, src, idx, uf, ncalls, rnd) ==
    LET data0 == With(record.fields, "pk", record_pk(record))
        fk == resolve_fks([data |-> data0, exc |-> "none", log |-> << >>, made |-> << >>],
                          fk_associations(name), record, idx)
    IN  IF fk.exc # "none"
        THEN [exc |-> fk.exc, data |-> fk.data, log |-> fk.log, made |-> << >>,
              instance |-> None, uf |-> uf, uuid_calls |-> ncalls]
        ELSE LET fx == fixup(name, fk, record, src, ncalls, rnd)
                 instance == make_model(name, fx.data)
                 ign == log_ignored_fields(fx.data, instance, uf)
             IN  [exc |-> "none", data |-> fx.data, log |-> fx.log \o ign.log,
                  made |-> Append(fx.made, instance),
                  instance |-> instance, uf |-> ign.uf,
                  uuid_calls |-> ncalls + Len(fx.made)]

-----------------------------------------------------------------------------
(* load() *)

\* the sequence with the two catalog types last
model_sequence_catalogs_last == top_level \o <<"contenttype", "permission">>

\* ("contenttype", "permission", *self.top_level)
model_sequence == <<"contenttype", "permission">> \o top_level

\* content_type_label without the special case of users.user
content_type_label_plain(name) == label_lower(name)

\* the label the dump files a model type under
content_type_label(name) ==
    IF label_lower(name) = "users.user" THEN "auth.user" ELSE label_lower(name)

\* records = [record for record in self.source_data if record["model"] == label]
records_of(src, name) ==
    SelectSeq(src, LAMBDA record : record.model = content_type_label(name))

-----------------------------------------------------------------------------
(* The dumps the adapter is given.  A dump is a sequence of source records *)
(* {model, pk, fields}; a pk is unique within its model.                   *)

Rec(label, pk, fields) == [model |-> label, pk |-> pk, fields |-> fields]

Absent == [t |-> "absent"]

\* fields, with key set to v unless v is Absent
Opt(fields, key, v) == IF v = Absent THEN fields ELSE With(fields, key, v)

\* the sequences of distinct elements of 1..n, of length lo..hi
DistinctSeqs(n, lo, hi) ==
    UNION {{l \in [1..k -> 1..n] : \A i, j \in 1..k : i # j => l[i] # l[j]} : k \in lo..hi}

PkList(l) == ListV([i \in 1..Len(l) |-> IntV(l[i])])

\* the model names a NetBox ContentType of the dump may carry: a Nautobot-owned
\* type, Django's ContentType, the status pseudo-target, and one neither the
\* adapter nor Nautobot knows
ContentTypeModels == {"interface", "contenttype", "status", "secret"}

ContentTypeRec(pk, name) ==
    Rec("contenttypes.contenttype", pk, [app_label |-> StrV("app"), model |-> StrV(name)])

RECURSIVE ContentTypeRecs(_, _)
ContentTypeRecs(c, pk) ==
    IF pk > MaxPk THEN << >>
    ELSE (IF c[pk] = "-" THEN << >> ELSE << ContentTypeRec(pk, c[pk]) >>)
            \o ContentTypeRecs(c, pk + 1)

\* every choice of ContentType records, one or none per pk
ContentTypeDumps ==
    {ContentTypeRecs(c, 1) : c \in [1..MaxPk -> ContentTypeModels \cup {"-"}]}

\* the shapes a foreign-key field may hold
PkValues == {IntV(p) : p \in 1..MaxPk}
ListValues == {PkList(l) : l \in DistinctSeqs(MaxPk, 1, MaxList)}
FkValues == {None, StrV("x")} \cup PkValues \cup ListValues

IpAddressRec(type, id, vrf) ==
    Rec("ipam.ipaddress", 1,
        Opt(Opt([address |-> StrV("10.0.0.1/24"), vrf |-> vrf, status |-> StrV("active")],
                "assigned_object_type", type),
            "assigned_object_id", id))

PermissionRec(pk, ct, extra) ==
    Rec("auth.permission", pk, Opt(extra @@ [codename |-> StrV("view")], "content_type", ct))

CustomFieldRec(pk, type, required, choices, cts) ==
    Rec("extras.customfield", pk,
        [name |-> StrV("cf"), type |-> StrV(type), required |-> BoolV(required),
         choices |-> json_dumps(choices), content_types |-> cts])

\* the dumps of ContentType records that only differ in being there and in being
\* flagged IGNORE once loaded
PlainContentTypeDumps ==
    {ContentTypeRecs(c, 1) : c \in [1..MaxPk -> {"interface", "secret", "-"}]}

\* foreign keys: ContentTypes, then one record whose references point at them
ForeignKeyDumps ==
    {cts \o << IpAddressRec(type, id, IntV(1)) >> :
        cts \in ContentTypeDumps, type \in PkValues, id \in FkValues}
    \cup {cts \o << IpAddressRec(type, id, IntV(1)) >> :
            cts \in {<< >>, << ContentTypeRec(1, "interface") >>},
            type \in {Absent, None, StrV("x")}, id \in FkValues}
    \cup {<< IpAddressRec(Absent, Absent, vrf) >> : vrf \in PkValues \cup ListValues}
    \cup {cts \o << PermissionRec(1, ct, << >>) >> :
            cts \in PlainContentTypeDumps, ct \in {Absent, StrV("x")} \cup PkValues}
    \cup {cts \o << CustomFieldRec(1, "text", FALSE, << >>, l) >> :
            cts \in PlainContentTypeDumps, l \in ListValues}

UserRec(pk) == Rec("auth.user", pk, [username |-> StrV("alice")])

UserConfigRec(pk, user, data) ==
    Rec("users.userconfig", pk, [user |-> IntV(user), data |-> DictV(data)])

InsertAt(s, i, x) == SubSeq(s, 1, i) \o <<x>> \o SubSeq(s, i + 1, Len(s))

\* a user among zero, one or two userconfig records
UserDumps ==
    LET configs ==
            {<< >>}
            \cup {<< UserConfigRec(1, u, d) >> :
                    u \in 1..MaxPk, d \in {{<<"theme", "dark">>}, {}}}
            \cup {<< UserConfigRec(1, u, {<<"theme", "dark">>}),
                     UserConfigRec(2, v, {<<"theme", "light">>}) >> :
                    u \in 1..MaxPk, v \in 1..MaxPk}
    IN  UNION {{InsertAt(c, i, UserRec(1)) : i \in 0..Len(c)} : c \in configs}

ChoiceLists == UNION {[1..n -> {"a", "b"}] : n \in 0..MaxChoices}

\* one custom field, alone or followed by a second select field
CustomFieldDumps ==
    {<< CustomFieldRec(1, type, required, choices, ListV(<< >>)) >> \o more :
        type \in {"select", "text"}, required \in BOOLEAN, choices \in ChoiceLists,
        more \in {<< >>, << CustomFieldRec(2, "select", TRUE, <<"a">>, ListV(<< >>)) >>}}

\* NetBox fields beyond the ones the models take: comments is the alias of a tag's
\* description, created is dropped on purpose, _private is internal, empty has no value
ExtraFields ==
    {[asn |-> IntV(7)],
     [asn |-> IntV(7), facility |-> StrV("f"), comments |-> StrV("c")],
     [created |-> StrV("2021"), _private |-> StrV("p"), empty |-> StrV("")]}

DriftRec(pk, kind, extra) ==
    IF kind = "tag" THEN Rec("extras.tag", pk, extra @@ [name |-> StrV("t")])
    ELSE PermissionRec(pk, Absent, extra)

\* up to MaxRecs tags and permissions carrying extra fields
DriftDumps ==
    UNION {{[i \in 1..n |-> DriftRec(i, kinds[i], extras[i])] :
                kinds \in [1..n -> {"tag", "permission"}],
                extras \in [1..n -> ExtraFields]} : n \in 1..MaxRecs}

Dumps == ForeignKeyDumps \cup UserDumps \cup CustomFieldDumps \cup DriftDumps

-----------------------------------------------------------------------------
(* The adapter *)

NoCall == [model |-> "none"]

\* NetBox210DiffSync(source_data=dump): a fresh instance; the class attribute
\* _unsupported_fields is not part of it
Init ==
    /\ dataset \in Dumps
    /\ source_data = dataset
    /\ pc = "new"
    /\ run = "first"
    /\ mi = 0
    /\ ri = 0
    /\ index = << >>
    /\ created = << >>
    /\ uuid_calls = 0
    /\ unsupported_fields = << >>
    /\ log = << >>
    /\ lastCall = NoCall
    /\ calls = << >>
    /\ firstRun = << >>

\* a second instance over the same dump, once the first has stopped
Construct ==
    /\ pc \in {"done", "raised"}
    /\ run = "first"
    /\ run' = "second"
    /\ firstRun' = created
    /\ source_data' = dataset
    /\ pc' = "new"
    /\ mi' = 0
    /\ ri' = 0
    /\ index' = << >>
    /\ created' = << >>
    /\ uuid_calls' = 0
    /\ lastCall' = NoCall
    /\ UNCHANGED <<dataset, unsupported_fields, log, calls>>

\* load(): up to the first model type
LoadBegin ==
    /\ pc = "new"
    /\ pc' = "load"
    /\ mi' = 1
    /\ ri' = 1
    /\ log' = Append(log, LogLine("info", "Loading imported NetBox source data into DiffSync...",
                                  "", None, {}))
    /\ UNCHANGED <<dataset, source_data, run, index, created, uuid_calls,
                   unsupported_fields, lastCall, calls, firstRun>>

\* the index with the instances of `made` added, in order
RECURSIVE add_all(_, _)
add_all(idx, made) ==
    IF made = << >> THEN idx
    ELSE add_all(With(idx, <<Head(made).model, Head(made).pk>>, Head(made)), Tail(made))

\* what chance may add to a load_record call: only the customfield branch calls uuid4()
Randomness(name) == IF name = "customfield" THEN 1..NumRandom ELSE {1}

\* load(): self.load_record(diffsync_model, record) for the next record of the type
LoadRecord ==
    /\ pc = "load"
    /\ ri <= Len(records_of(source_data, model_sequence[mi]))
    /\ \E rnd \in Randomness(model_sequence[mi]) :
        LET name == model_sequence[mi]
            record == records_of(source_data, name)[ri]
            res == load_record(name, record, source_data, index, unsupported_fields,
                               uuid_calls, rnd)
        IN  /\ lastCall' = [model |-> name, record |-> record, idx |-> index, res |-> res]
            /\ calls' = Append(calls, <<run, name, record.pk>>)
            /\ log' = log \o res.log
            /\ unsupported_fields' = res.uf
            /\ uuid_calls' = res.uuid_calls
            /\ index' = add_all(index, res.made)
            /\ created' = created \o
                  [i \in 1..Len(res.made) |->
                     [inst |-> res.made[i], by |-> <<name, record.pk>>,
                      synthesized |-> i < Len(res.made)]]
            /\ IF res.exc = "none"
               THEN pc' = "load" /\ ri' = ri + 1
               ELSE pc' = "raised" /\ ri' = ri
    /\ UNCHANGED <<dataset, source_data, run, mi, firstRun>>

\* the first position from i on whose model type has records in the dump, or the
\* position after the last type
RECURSIVE next_with_records(_, _)
next_with_records(src, i) ==
    IF i > Len(model_sequence) THEN i
    ELSE IF records_of(src, model_sequence[i]) # << >> THEN i
    ELSE next_with_records(src, i + 1)

\* load(): on through the model types to the next one with records (`if records:`)
LoadNextModel ==
    /\ pc = "load"
    /\ ri > Len(records_of(source_data, model_sequence[mi]))
    /\ next_with_records(source_data, mi + 1) <= Len(model_sequence)
    /\ mi' = next_with_records(source_data, mi + 1)
    /\ ri' = 1
    /\ UNCHANGED <<dataset, source_data, pc, run, index, created, uuid_calls,
                   unsupported_fields, log, lastCall, calls, firstRun>>

\* load(): the last type is through; the dump is let go
LoadEnd ==
    /\ pc = "load"
    /\ ri > Len(records_of(source_data, model_sequence[mi]))
    /\ next_with_records(source_data, mi + 1) > Len(model_sequence)
    /\ pc' = "done"
    /\ source_data' = None
    /\ log' = Append(log, LogLine("info", "Data loading from NetBox source data complete.",
                                  "", None, {}))
    /\ UNCHANGED <<dataset, run, mi, ri, index, created, uuid_calls,
                   unsupported_fields, lastCall, calls, firstRun>>

Next == Construct \/ LoadBegin \/ LoadRecord \/ LoadNextModel \/ LoadEnd

Spec == Init /\ [][Next]_vars

-----------------------------------------------------------------------------
(* What the latest load_record() call was given and how it ended *)

Called == lastCall # NoCall
Completed == Called /\ lastCall.res.exc = "none"

\* the warnings of _log_ignored_fields_info in a sequence of log lines
DriftWarnings(lines) ==
    SelectSeq(lines, LAMBDA e : e.level = "warning" /\ e.msg = "not supported by this importer")

\* the field names the warnings of `lines` name for a model
Named(lines, name) ==
    UNION {DriftWarnings(lines)[i].fields :
            i \in {j \in 1..Len(DriftWarnings(lines)) : DriftWarnings(lines)[j].model = name}}

\* the log as it was before the latest call
LogBefore == SubSeq(log, 1, Len(log) - Len(lastCall.res.log))

\* the ignored fields of the record the latest call built
LastIgnored == get_ignored_fields(lastCall.res.data, lastCall.res.instance)

-----------------------------------------------------------------------------
(* C1 *)

\* C1: each (model, ignored field) pair is named by at most one warning of
\* _log_ignored_fields_info, over all load_record calls: no two warnings of a model
\* share a field; a record with ignored fields warns exactly with those of its
\* fields that no earlier warning of its model names (all of them when it is the
\* first of its model), and not at all when there are none; and it always logs
\* one debug line.
C1_OneWarningPerField ==
    LET w == DriftWarnings(log)
    IN  /\ \A i, j \in 1..Len(w) :
              (i # j /\ w[i].model = w[j].model) => w[i].fields \cap w[j].fields = {}
        /\ \A name \in DOMAIN unsupported_fields :
              unsupported_fields[name] = Named(log, name)
        /\ (Completed /\ LastIgnored # {}) =>
              LET mine == DriftWarnings(lastCall.res.log)
                  new == LastIgnored \ Named(LogBefore, lastCall.model)
              IN  /\ IF new = {} THEN mine = << >>
                      ELSE /\ Len(mine) = 1
                           /\ mine[1].fields = new
                           /\ mine[1].model = lastCall.model
                  /\ Len(SelectSeq(lastCall.res.log, LAMBDA e : e.level = "debug"
                            /\ e.msg = "NetBox field not defined for DiffSync Model")) = 1
        /\ (Completed /\ LastIgnored = {}) => DriftWarnings(lastCall.res.log) = << >>

\* a third record of a model repeats a field already warned about, after two
\* warnings for that model: it logs its debug line and no warning
C1_Witness ==
    /\ Completed
    /\ LastIgnored # {}
    /\ DriftWarnings(lastCall.res.log) = << >>
    /\ Cardinality({i \in 1..Len(DriftWarnings(log)) :
                      DriftWarnings(log)[i].model = lastCall.model}) >= 2

-----------------------------------------------------------------------------
(* C9 *)

\* the positions of the dump's userconfig records of user pk
UserConfigsOf(pk) ==
    {i \in 1..Len(dataset) :
        dataset[i].model = "users.userconfig" /\ dataset[i].fields["user"] = IntV(pk)}

NoUserConfigWarnings(lines) ==
    SelectSeq(lines, LAMBDA e : e.level = "warning" /\ e.msg = "No UserConfig found for User")

\* C9: a user record with pk p gets as config_data the data of the first
\* users.userconfig record of the dump whose user is p and no "No UserConfig"
\* warning; without such a record it gets {} and exactly one such warning. Either
\* way the user record is built and indexed.
C9_UserConfigMerged ==
    (Called /\ lastCall.model = "user") =>
        LET p == lastCall.record.pk
            S == UserConfigsOf(p)
            warned == NoUserConfigWarnings(lastCall.res.log)
        IN  /\ Completed
            /\ lastCall.res.instance.model = "user"
            /\ <<"user", lastCall.res.instance.pk>> \in DOMAIN index
            /\ index[<<"user", lastCall.res.instance.pk>>] = lastCall.res.instance
            /\ IF S # {}
               THEN /\ lastCall.res.data["config_data"]
                         = dataset[CHOOSE i \in S : \A j \in S : i <= j].fields["data"]
                    /\ lastCall.res.instance.data["config_data"]
                         = lastCall.res.data["config_data"]
                    /\ warned = << >>
               ELSE /\ lastCall.res.data["config_data"] = DictV({})
                    /\ lastCall.res.instance.data["config_data"] = DictV({})
                    /\ Len(warned) = 1
                    /\ warned[1].pk = IntV(p)

\* a user with two userconfig records of different data, and a user with none
C9_Witness ==
    /\ Completed
    /\ lastCall.model = "user"
    /\ Cardinality(UserConfigsOf(lastCall.record.pk)) = 2
    /\ lastCall.res.data["config_data"] = DictV({<<"theme", "dark">>})

C9_WitnessNone ==
    /\ Completed
    /\ lastCall.model = "user"
    /\ UserConfigsOf(lastCall.record.pk) = {}
    /\ \E i \in 1..Len(dataset) : dataset[i].model = "users.userconfig"

-----------------------------------------------------------------------------
(* C6 *)

\* the choice list a custom field record of the dump serializes
SerializedChoices(record) ==
    CHOOSE l \in ChoiceLists : json_dumps(l) = record.fields["choices"]

\* the customfieldchoice records the instance built while loading the custom field pk
ChoicesBuiltFor(pk) ==
    SelectSeq(created, LAMBDA c : c.synthesized /\ c.by = <<"customfield", pk>>)

\* C6: a select custom field with n serialized choices yields exactly n
\* customfieldchoice records, one per choice value in order, each with
\* field = netbox_pk_to_nautobot_pk("customfield", pk) and each indexed; its own
\* data has no choices key. A custom field of another type yields none. Either way
\* required is false and actual_required is the source record's required.
C6_CustomFieldSplit ==
    (Called /\ lastCall.model = "customfield" /\ Completed) =>
        LET record == lastCall.record
            data == lastCall.res.data
            built == ChoicesBuiltFor(record.pk)
            choices == SerializedChoices(record)
        IN  /\ data["required"] = BoolV(FALSE)
            /\ data["actual_required"] = record.fields["required"]
            /\ lastCall.res.instance.data["required"] = BoolV(FALSE)
            /\ lastCall.res.instance.data["actual_required"] = record.fields["required"]
            /\ IF record.fields["type"] = StrV("select")
               THEN /\ "choices" \notin DOMAIN data
                    /\ Len(built) = Len(choices)
                    /\ \A i \in 1..Len(built) :
                          /\ built[i].inst.model = "customfieldchoice"
                          /\ built[i].inst.data["value"] = StrV(choices[i])
                          /\ built[i].inst.data["field"]
                               = netbox_pk_to_nautobot_pk("customfield", record.pk)
                          /\ <<"customfieldchoice", built[i].inst.pk>> \in DOMAIN index
                    /\ \A i, j \in 1..Len(built) :
                          i # j => built[i].inst.pk # built[j].inst.pk
               ELSE built = << >>

\* a required select field with two choices has been loaded
C6_Witness ==
    /\ Completed
    /\ lastCall.model = "customfield"
    /\ lastCall.record.fields["type"] = StrV("select")
    /\ lastCall.record.fields["required"] = BoolV(TRUE)
    /\ Len(ChoicesBuiltFor(lastCall.record.pk)) = 2

\* a text field that serializes two choices has been loaded
C6_WitnessText ==
    /\ Completed
    /\ lastCall.model = "customfield"
    /\ lastCall.record.fields["type"] = StrV("text")
    /\ Len(SerializedChoices(lastCall.record)) = 2

-----------------------------------------------------------------------------
(* The foreign keys of the latest call, field by field *)

LastAssoc == fk_associations(lastCall.model)

\* the local dict of the latest call when it started
LastData0 == With(lastCall.record.fields, "pk", IntV(lastCall.record.pk))

\* the call's state when the loop comes to the k-th declaration
Before(k) ==
    resolve_fks([data |-> LastData0, exc |-> "none", log |-> << >>, made |-> << >>],
                SubSeq(LastAssoc, 1, k - 1), lastCall.record, lastCall.idx)

\* the loop comes to the k-th declaration and finds a value to resolve there
Resolves(k) ==
    /\ Before(k).exc = "none"
    /\ LastAssoc[k][1] \in DOMAIN Before(k).data
    /\ Truthy(Before(k).data[LastAssoc[k][1]])

\* the raw value of the k-th declared field
Raw(k) == lastCall.record.fields[LastAssoc[k][1]]

IsGeneric(k) == StartsWith(LastAssoc[k][2], "*")

\* the discriminator of a generic declaration names a ContentType of the index
DiscriminatorKnown(k) ==
    /\ IsGeneric(k)
    /\ StripFirst(LastAssoc[k][2]) \in DOMAIN lastCall.record.fields
    /\ IsInt(lastCall.record.fields[StripFirst(LastAssoc[k][2])])
    /\ <<"contenttype", lastCall.record.fields[StripFirst(LastAssoc[k][2])]>>
          \in DOMAIN lastCall.idx

\* the model name that ContentType carries
DiscriminatedModel(k) ==
    lastCall.idx[<<"contenttype",
                   lastCall.record.fields[StripFirst(LastAssoc[k][2])]>>].data["model"].s

\* the k-th declaration has a target: the declared one, or the discriminated one
HasTarget(k) ==
    /\ LastAssoc[k][2] # "status"
    /\ IsGeneric(k) => DiscriminatorKnown(k)

Target(k) == IF IsGeneric(k) THEN DiscriminatedModel(k) ELSE LastAssoc[k][2]

\* what the latest call left in the k-th declared field
Resolved(k) == lastCall.res.data[LastAssoc[k][1]]

InIndex(name, pk) == <<name, pk>> \in DOMAIN lastCall.idx

-----------------------------------------------------------------------------
(* C10 *)

\* the positions of a list of keys whose records of type name are not flagged IGNORE
KeptPositions(name, pks) ==
    SelectSeq([i \in 1..Len(pks) |-> i],
              LAMBDA i : ~lastCall.idx[<<name, pks[i]>>].IGNORE)

\* C10: a declared field that holds a list of integer pks is replaced, element
\* by element and in the order of the source list, by
\* netbox_pk_to_nautobot_pk(target, pk) when the target is a Nautobot model, and
\* by the identifiers of the indexed records when it is not, leaving out the
\* records flagged IGNORE.
C10_ListResolved ==
    Called =>
        \A k \in 1..Len(LastAssoc) :
            (/\ Resolves(k)
             /\ IsList(Raw(k))
             /\ HasTarget(k)
             /\ Target(k) \in AdapterModels
             /\ (~IsNautobotBaseModel(Target(k)) =>
                    \A i \in 1..Len(Raw(k).l) : InIndex(Target(k), Raw(k).l[i])))
            => LET pks == Raw(k).l
                   kept == KeptPositions(Target(k), pks)
               IN  /\ IsList(Resolved(k))
                   /\ IF IsNautobotBaseModel(Target(k))
                      THEN /\ Len(Resolved(k).l) = Len(pks)
                           /\ \A i \in 1..Len(pks) :
                                 Resolved(k).l[i]
                                    = netbox_pk_to_nautobot_pk(Target(k), pks[i].i)
                      ELSE /\ Len(Resolved(k).l) = Len(kept)
                           /\ \A i \in 1..Len(kept) :
                                 Resolved(k).l[i]
                                    = get_identifiers(
                                         lastCall.idx[<<Target(k), pks[kept[i]]>>])

\* a list of two ContentType keys whose first record is flagged IGNORE and whose
\* second is not has been resolved to the one natural key
C10_Witness ==
    /\ Called
    /\ \E k \in 1..Len(LastAssoc) :
          /\ Resolves(k)
          /\ IsList(Raw(k))
          /\ Len(Raw(k).l) = 2
          /\ HasTarget(k)
          /\ Target(k) = "contenttype"
          /\ \A i \in 1..2 : InIndex("contenttype", Raw(k).l[i])
          /\ lastCall.idx[<<"contenttype", Raw(k).l[1]>>].IGNORE
          /\ ~lastCall.idx[<<"contenttype", Raw(k).l[2]>>].IGNORE
          /\ Len(Resolved(k).l) = 1

\* a list of two keys of a Nautobot model, the larger key first, has been resolved
C10_WitnessOwned ==
    /\ Called
    /\ \E k \in 1..Len(LastAssoc) :
          /\ Resolves(k)
          /\ IsList(Raw(k))
          /\ Len(Raw(k).l) = 2
          /\ Raw(k).l[1].i > Raw(k).l[2].i
          /\ HasTarget(k)
          /\ IsNautobotBaseModel(Target(k))
          /\ Len(Resolved(k).l) = 2

-----------------------------------------------------------------------------
(* C2 *)

\* the k-th declaration is a static one (not status, not generic) to a model of
\* the adapter, and the loop finds a single integer there
SingleStatic(k) ==
    /\ Resolves(k)
    /\ IsInt(Raw(k))
    /\ ~IsGeneric(k)
    /\ LastAssoc[k][2] # "status"
    /\ LastAssoc[k][2] \in AdapterModels

\* C2: a declared field with a static target T that holds a single integer v
\* becomes netbox_pk_to_nautobot_pk(T, v) when T is a Nautobot model; when T is
\* not, it becomes the identifiers of the record with pk v if the index has it
\* unflagged, and null if that record is flagged IGNORE or the index has none.
C2_SingleResolved ==
    Called =>
        \A k \in 1..Len(LastAssoc) :
            SingleStatic(k) =>
                LET T == LastAssoc[k][2]
                IN  IF IsNautobotBaseModel(T)
                    THEN Resolved(k) = netbox_pk_to_nautobot_pk(T, Raw(k).i)
                    ELSE IF InIndex(T, Raw(k)) /\ ~lastCall.idx[<<T, Raw(k)>>].IGNORE
                    THEN Resolved(k) = get_identifiers(lastCall.idx[<<T, Raw(k)>>])
                    ELSE Resolved(k) = None

\* the cases of C2 in which the index has the record, or needs none
C2_SingleResolvedIndexed ==
    Called =>
        \A k \in 1..Len(LastAssoc) :
            (SingleStatic(k)
                /\ (IsNautobotBaseModel(LastAssoc[k][2]) \/ InIndex(LastAssoc[k][2], Raw(k))))
            => LET T == LastAssoc[k][2]
               IN  IF IsNautobotBaseModel(T)
                   THEN Resolved(k) = netbox_pk_to_nautobot_pk(T, Raw(k).i)
                   ELSE IF ~lastCall.idx[<<T, Raw(k)>>].IGNORE
                   THEN Resolved(k) = get_identifiers(lastCall.idx[<<T, Raw(k)>>])
                   ELSE Resolved(k) = None

\* the case of C2 in which the index has no such record: the call raises there
\* and the field keeps its integer
C2_SingleMissingRaises ==
    Called =>
        \A k \in 1..Len(LastAssoc) :
            (SingleStatic(k) /\ ~IsNautobotBaseModel(LastAssoc[k][2])
                /\ ~InIndex(LastAssoc[k][2], Raw(k)))
            => /\ lastCall.res.exc = "ObjectNotFound"
               /\ lastCall.res.instance = None
               /\ Resolved(k) = Raw(k)
               /\ pc = "raised"

-----------------------------------------------------------------------------
(* C3 *)

\* the reference-resolution failure the loop meets at the k-th declaration
Failure(k) ==
    IF ~Resolves(k) \/ LastAssoc[k][2] = "status" THEN "none"
    ELSE IF IsGeneric(k) /\ StripFirst(LastAssoc[k][2]) \notin DOMAIN lastCall.record.fields
         THEN "discriminator missing"
    ELSE IF IsGeneric(k) /\ ~IsInt(lastCall.record.fields[StripFirst(LastAssoc[k][2])])
         THEN "discriminator not an integer"
    ELSE IF IsGeneric(k) /\ ~DiscriminatorKnown(k)
         THEN "discriminator not in the index"
    ELSE IF Target(k) \notin AdapterModels THEN "unknown target"
    ELSE IF ~IsInt(Raw(k)) /\ ~IsList(Raw(k)) THEN "invalid value"
    ELSE IF IsNautobotBaseModel(Target(k)) THEN "none"
    ELSE IF IsInt(Raw(k)) /\ ~InIndex(Target(k), Raw(k)) THEN "reference not in the index"
    ELSE IF IsList(Raw(k)) /\ \E i \in 1..Len(Raw(k).l) : ~InIndex(Target(k), Raw(k).l[i])
         THEN "reference not in the index"
    ELSE "none"

\* C3: every reference-resolution failure of a field sets the field to null and
\* lets load_record build and return the record; none raises out of load_record
\* or stops load().
C3_FailuresAbsorbed ==
    /\ pc # "raised"
    /\ Called =>
          /\ Completed
          /\ lastCall.res.instance # None
          /\ \A k \in 1..Len(LastAssoc) : Failure(k) # "none" => Resolved(k) = None

\* the failures the code does absorb: the field is null and the loop goes on
C3_AbsorbedFailures ==
    Called =>
        \A k \in 1..Len(LastAssoc) :
            Failure(k) \in {"discriminator not an integer", "unknown target", "invalid value"}
            => /\ Resolved(k) = None
               /\ Before(k + 1).exc = "none"

\* the failures the code does not absorb: load_record raises and load() stops
C3_RaisingFailures ==
    Called =>
        \A k \in 1..Len(LastAssoc) :
            Failure(k) \in {"discriminator missing", "discriminator not in the index",
                            "reference not in the index"}
            => /\ lastCall.res.exc # "none"
               /\ lastCall.res.instance = None
               /\ pc = "raised"

-----------------------------------------------------------------------------
(* C5 *)

\* the declarations of the latest call's model, the k-th one declared with the
\* static target X
StaticAssoc(k, X) ==
    [i \in 1..Len(LastAssoc) |-> IF i = k THEN <<LastAssoc[k][1], X>> ELSE LastAssoc[i]]

\* how the loop would end with that declaration
AsIfStatic(k, X) ==
    resolve_fks([data |-> LastData0, exc |-> "none", log |-> << >>, made |-> << >>],
                StaticAssoc(k, X), lastCall.record, lastCall.idx)

\* the latest call ended as the loop over decl would: the same exception, and
\* the same value in the k-th declared field
SameAs(k, h) ==
    /\ lastCall.res.exc = h.exc
    /\ LastAssoc[k][1] \in DOMAIN LastData0 => Resolved(k) = h.data[LastAssoc[k][1]]

\* C5 as stated: a generic field whose discriminator names a ContentType of the
\* index with model X resolves as if it were declared with the static target X,
\* whatever X and whatever the value.
C5_GenericAsStatic ==
    Called =>
        \A k \in 1..Len(LastAssoc) :
            DiscriminatorKnown(k) => SameAs(k, AsIfStatic(k, DiscriminatedModel(k)))

\* C5, amended: the same for every X but "status", the one name the loop takes
\* for a pseudo-target before it looks at the declaration's marker.
C5_GenericAsStaticButStatus ==
    Called =>
        \A k \in 1..Len(LastAssoc) :
            (DiscriminatorKnown(k) /\ DiscriminatedModel(k) # "status")
            => SameAs(k, AsIfStatic(k, DiscriminatedModel(k)))

\* a generic field holding a key, discriminated to a type kept by natural key,
\* has been resolved to the natural key of an indexed record
C5_Witness ==
    /\ Completed
    /\ \E k \in 1..Len(LastAssoc) :
          /\ DiscriminatorKnown(k)
          /\ DiscriminatedModel(k) = "contenttype"
          /\ Resolves(k)
          /\ IsInt(Raw(k))
          /\ Resolved(k).t = "ids"

\* the same for a list discriminated to a Nautobot model, and for a value that
\* is neither, discriminated to a name the adapter does not know
C5_WitnessList ==
    /\ Completed
    /\ \E k \in 1..Len(LastAssoc) :
          /\ DiscriminatorKnown(k)
          /\ DiscriminatedModel(k) = "interface"
          /\ Resolves(k)
          /\ IsList(Raw(k))
          /\ IsList(Resolved(k))

C5_WitnessUnknown ==
    /\ Completed
    /\ \E k \in 1..Len(LastAssoc) :
          /\ DiscriminatorKnown(k)
          /\ DiscriminatedModel(k) = "secret"
          /\ Resolves(k)
          /\ Raw(k) = StrV("x")
          /\ Resolved(k) = None

-----------------------------------------------------------------------------
(* The runs *)

Stopped == pc \in {"done", "raised"}

Range(f) == {f[i] : i \in DOMAIN f}

\* the load_record calls of the current instance, as <<modelname, pk>>
CallsOfRun == SelectSeq(calls, LAMBDA c : c[1] = run)

Synthesized(cs) == SelectSeq(cs, LAMBDA c : c.synthesized)
FromSource(cs) == SelectSeq(cs, LAMBDA c : ~c.synthesized)

-----------------------------------------------------------------------------
(* C4 *)

PksOf(cs) == {cs[i].inst.pk : i \in 1..Len(cs)}

\* C4 as stated: two instances that load the same dump create records with the
\* same set of pks, the synthesized customfieldchoice records included.
C4_SamePks ==
    (run = "second" /\ Stopped) => PksOf(created) = PksOf(firstRun)

\* C4, amended: they create the same number of records; the records built from
\* source records have the same pks, and the synthesized customfieldchoice
\* records the same parent and value, one for one. The pk of a synthesized
\* record is a uuid4() and is not repeated.
C4_SameDerivedPks ==
    (run = "second" /\ Stopped) =>
        /\ Len(created) = Len(firstRun)
        /\ \A i \in 1..Len(created) :
              /\ created[i].synthesized = firstRun[i].synthesized
              /\ created[i].inst.model = firstRun[i].inst.model
              /\ ~created[i].synthesized => created[i].inst.pk = firstRun[i].inst.pk
              /\ created[i].synthesized =>
                    /\ created[i].inst.data["field"] = firstRun[i].inst.data["field"]
                    /\ created[i].inst.data["value"] = firstRun[i].inst.data["value"]
        /\ PksOf(FromSource(created)) = PksOf(FromSource(firstRun))

\* both instances are through, and their customfieldchoice records differ in pk
C4_Witness ==
    /\ run = "second"
    /\ pc = "done"
    /\ Len(Synthesized(created)) = 2
    /\ Len(FromSource(created)) >= 1
    /\ PksOf(Synthesized(created)) \cap PksOf(Synthesized(firstRun)) = {}

-----------------------------------------------------------------------------
(* C7 *)

\* contenttype, permission, then top_level as declared
DeclaredSequence == <<"contenttype", "permission">> \o top_level

Position(name) == CHOOSE i \in 1..Len(DeclaredSequence) : DeclaredSequence[i] = name

\* the dump's records of a model type
DumpLabel(name) ==
    CASE name = "contenttype" -> "contenttypes.contenttype"
      [] name = "permission" -> "auth.permission"
      [] name = "user" -> "auth.user"
      [] name = "customfield" -> "extras.customfield"
      [] name = "customfieldchoice" -> "extras.customfieldchoice"
      [] name = "tag" -> "extras.tag"
      [] name = "ipaddress" -> "ipam.ipaddress"

DumpRecords(name) == SelectSeq(dataset, LAMBDA r : r.model = DumpLabel(name))

\* every record of the dump of every type before name has been handed to load_record
EarlierTypesLoaded(name) ==
    \A i \in 1..(Position(name) - 1) :
        \A j \in 1..Len(DumpRecords(DeclaredSequence[i])) :
            <<run, DeclaredSequence[i], DumpRecords(DeclaredSequence[i])[j].pk>>
                \in Range(calls)

\* load_record is called type by type in the declared sequence, and a call for
\* another type than contenttype finds every ContentType of the dump in the index
LoadedInSequence ==
    /\ \A i, j \in 1..Len(CallsOfRun) :
          i < j => Position(CallsOfRun[i][2]) <= Position(CallsOfRun[j][2])
    /\ (Called /\ lastCall.model # "contenttype") =>
          \A j \in 1..Len(DumpRecords("contenttype")) :
              <<"contenttype", IntV(DumpRecords("contenttype")[j].pk)>>
                  \in DOMAIN lastCall.idx

\* C7 as stated: the types are loaded in the declared sequence and no record of
\* a type is created before every source record of every earlier type is loaded.
C7_NoRecordBeforeEarlierTypes ==
    /\ LoadedInSequence
    /\ \A i \in 1..Len(created) : EarlierTypesLoaded(created[i].inst.model)

\* C7, amended: the same for the records load_record builds from source records.
\* The customfieldchoice records of a select custom field are created while that
\* custom field is loaded, which may be before the last custom field is.
C7_NoSourceRecordBeforeEarlierTypes ==
    /\ LoadedInSequence
    /\ \A i \in 1..Len(created) :
          ~created[i].synthesized => EarlierTypesLoaded(created[i].inst.model)
    /\ \A i \in 1..Len(created) :
          created[i].synthesized => EarlierTypesLoaded(created[i].by[1])

\* a record of the last type has been built from a dump that holds ContentTypes
C7_Witness ==
    /\ Completed
    /\ lastCall.model = "ipaddress"
    /\ Len(DumpRecords("contenttype")) = 2
    /\ \E i \in 1..Len(created) : created[i].inst.model = "ipaddress"

-----------------------------------------------------------------------------
(* C8 *)

\* the index key of the record load_record builds from the source record pk
KeyOf(name, pk) ==
    <<name, IF name \in {"contenttype", "permission"} THEN IntV(pk)
            ELSE netbox_pk_to_nautobot_pk(name, pk)>>

\* load() handed load_record each record of the dump of a type it loads, once
EveryRecordLoaded ==
    /\ Len(CallsOfRun)
          = Cardinality({i \in 1..Len(dataset) :
                           \E k \in 1..Len(DeclaredSequence) :
                               dataset[i].model = DumpLabel(DeclaredSequence[k])})
    /\ \A i, j \in 1..Len(CallsOfRun) : i # j => CallsOfRun[i] # CallsOfRun[j]

\* C8 as stated: when load() finishes the index holds exactly one record per
\* source record handed to load_record, and nothing else.
C8_IndexIsLoadedRecords ==
    pc = "done" =>
        /\ EveryRecordLoaded
        /\ DOMAIN index = {KeyOf(c[2], c[3]) : c \in Range(CallsOfRun)}
        /\ Cardinality(DOMAIN index) = Len(CallsOfRun)

\* C8, amended: it holds exactly one record per source record handed to
\* load_record and one customfieldchoice record per choice of each select custom
\* field loaded, and nothing else.
C8_IndexIsLoadedAndSynthesized ==
    pc = "done" =>
        /\ EveryRecordLoaded
        /\ DOMAIN index
              = {KeyOf(c[2], c[3]) : c \in Range(CallsOfRun)}
                  \cup {<<"customfieldchoice", c.inst.pk>> : c \in Range(Synthesized(created))}
        /\ Cardinality(DOMAIN index) = Len(CallsOfRun) + Len(Synthesized(created))
        /\ Len(FromSource(created)) = Len(CallsOfRun)
        /\ \A i \in 1..Len(created) :
              index[<<created[i].inst.model, created[i].inst.pk>>] = created[i].inst
        /\ Len(Synthesized(created))
              = Cardinality({<<i, j>> \in (1..Len(dataset)) \X (1..MaxChoices) :
                    /\ dataset[i].model = "extras.customfield"
                    /\ dataset[i].fields["type"] = StrV("select")
                    /\ j <= Len(SerializedChoices(dataset[i]))})

\* load() is through a dump of two custom fields, three choices between them
C8_Witness ==
    /\ pc = "done"
    /\ Len(CallsOfRun) = 2
    /\ Len(Synthesized(created)) = 3
    /\ Cardinality(DOMAIN index) = 5

=============================================================================
